---- MODULE Spec2Model ----
(***************************************************************************)
(* Model of bot.py: a Discord relay that mirrors messages between paired   *)
(* channels, translating them, and keeps edits, deletions and reply        *)
(* references of the mirrored copies in step.                              *)
(*                                                                         *)
(* Text is a sequence of Unicode code points.  The chat platform, the      *)
(* users and the translation service are the environment; the bot is the   *)
(* set of event handlers, each a coroutine that runs without interruption  *)
(* from one await to the next (asyncio, one thread).                       *)
(***************************************************************************)
EXTENDS Integers, Sequences, FiniteSets, TLC

(***************************************************************************)
(* Bounds of the model.                                                    *)
(***************************************************************************)
\* Number of things users do in one run (create, edit or delete a message).
MaxUserActions == 2

(***************************************************************************)
(* Text.                                                                   *)
(***************************************************************************)
EMPTY == << >>
\* "hi"
EN_TEXT == <<104, 105>>
\* two hiragana and one kanji
JA_TEXT == <<12371, 12435, 26085>>
\* " ok" as the service may answer it, with a leading blank
EN_OUT == <<32, 111, 107>>
\* two hiragana followed by a newline
JA_OUT == <<12399, 12356, 10>>
\* a blank line
BLANK_OUT == <<32, 10>>

IsSpace(ch) == ch \in {9, 10, 11, 12, 13, 32}

RECURSIVE LStrip(_)
LStrip(t) == IF t # << >> /\ IsSpace(Head(t)) THEN LStrip(Tail(t)) ELSE t

RECURSIVE RStrip(_)
RStrip(t) ==
    IF t # << >> /\ IsSpace(t[Len(t)]) THEN RStrip(SubSeq(t, 1, Len(t) - 1)) ELSE t

\* str.strip()
Strip(t) == RStrip(LStrip(t))

\* is_japanese: any code point in U+3040..U+30FF or U+4E00..U+9FAF
is_japanese(text) ==
    \E i \in 1..Len(text) :
        \/ (12352 <= text[i] /\ text[i] <= 12543)
        \/ (19968 <= text[i] /\ text[i] <= 40879)

\* "Translation error."
ERR_EN ==
    <<84, 114, 97, 110, 115, 108, 97, 116, 105, 111, 110, 32, 101, 114, 114,
      111, 114, 46>>
\* "Translation error (JP)."
ERR_JA ==
    <<84, 114, 97, 110, 115, 108, 97, 116, 105, 111, 110, 32, 101, 114, 114,
      111, 114, 32, 40, 74, 80, 41, 46>>

(***************************************************************************)
(* The translation service.  One call either raises or answers a text; the *)
(* answer does not depend on the model's state, so an outcome is chosen    *)
(* freely.  translate_to_english / translate_to_japanese return            *)
(* response.text.strip().                                                  *)
(***************************************************************************)
Outcomes ==
    {[exc |-> TRUE, text |-> EMPTY]}
        \cup {[exc |-> FALSE, text |-> t] : t \in {EMPTY, BLANK_OUT, EN_OUT, JA_OUT}}

translate_to_english(outcome) == Strip(outcome.text)

translate_to_japanese(outcome) == Strip(outcome.text)

max_retries == 2

\* The sequences of outcomes the attempts of one safe_translate call may meet.
OutcomeSeqs == [1..(max_retries + 1) -> Outcomes]

\* safe_translate_to_english without the placeholder: whatever the last
\* attempt left is returned.
RECURSIVE EnglishLoopBare(_, _, _)
EnglishLoopBare(outs, attempt, last_result) ==
    IF attempt > max_retries
    THEN [ret |-> last_result, calls |-> attempt, sleeps |-> attempt]
    ELSE LET result == IF outs[attempt + 1].exc
                       THEN EMPTY
                       ELSE Strip(outs[attempt + 1].text)
         IN  IF result # EMPTY /\ ~is_japanese(result)
             THEN [ret |-> result, calls |-> attempt + 1, sleeps |-> attempt]
             ELSE EnglishLoopBare(outs, attempt + 1, result)

\* safe_translate_to_english keeping the last result that held text.
RECURSIVE EnglishLoopKeep(_, _, _)
EnglishLoopKeep(outs, attempt, last_result) ==
    IF attempt > max_retries
    THEN [ret |-> IF last_result # EMPTY THEN last_result
                  ELSE <<84, 114, 97, 110, 115, 108, 97, 116, 105, 111, 110, 32, 101,
                         114, 114, 111, 114, 46>>,
          calls |-> attempt, sleeps |-> attempt]
    ELSE LET result == IF outs[attempt + 1].exc
                       THEN EMPTY
                       ELSE Strip(outs[attempt + 1].text)
         IN  IF result # EMPTY /\ ~is_japanese(result)
             THEN [ret |-> result, calls |-> attempt + 1, sleeps |-> attempt]
             ELSE EnglishLoopKeep(outs, attempt + 1,
                                  IF result # EMPTY THEN result ELSE last_result)

\* safe_translate_to_english without its try/except: a call that raises ends
\* the loop, and nothing is returned.
RECURSIVE EnglishLoopRaise(_, _, _)
EnglishLoopRaise(outs, attempt, last_result) ==
    IF attempt > max_retries
    THEN [ret |-> IF last_result # EMPTY THEN last_result
                  ELSE <<84, 114, 97, 110, 115, 108, 97, 116, 105, 111, 110, 32, 101,
                         114, 114, 111, 114, 46>>,
          calls |-> attempt, sleeps |-> attempt]
    ELSE IF outs[attempt + 1].exc
    THEN [ret |-> EMPTY, calls |-> attempt + 1, sleeps |-> attempt]
    ELSE LET result == Strip(outs[attempt + 1].text)
         IN  IF result # EMPTY /\ ~is_japanese(result)
             THEN [ret |-> result, calls |-> attempt + 1, sleeps |-> attempt]
             ELSE EnglishLoopRaise(outs, attempt + 1, result)

(***************************************************************************)
(* safe_translate_to_english: the retry loop.  attempt counts from 0;      *)
(* the value is the returned text with the number of service calls and of  *)
(* one-second sleeps made.                                                 *)
(***************************************************************************)
RECURSIVE EnglishLoop(_, _, _)
EnglishLoop(outs, attempt, last_result) ==
    IF attempt > max_retries
    THEN [ret |-> IF last_result # EMPTY THEN last_result ELSE ERR_EN,
          calls |-> attempt, sleeps |-> attempt]
    ELSE LET result == IF outs[attempt + 1].exc
                       THEN EMPTY
                       ELSE translate_to_english(outs[attempt + 1])
         IN  IF result # EMPTY /\ ~is_japanese(result)
             THEN [ret |-> result, calls |-> attempt + 1, sleeps |-> attempt]
             ELSE EnglishLoop(outs, attempt + 1, result)

safe_translate_to_english(outs) == EnglishLoop(outs, 0, EMPTY)

RECURSIVE JapaneseLoop(_, _, _)
JapaneseLoop(outs, attempt, last_result) ==
    IF attempt > max_retries
    THEN [ret |-> IF last_result # EMPTY THEN last_result ELSE ERR_JA,
          calls |-> attempt, sleeps |-> attempt]
    ELSE LET result == IF outs[attempt + 1].exc
                       THEN EMPTY
                       ELSE translate_to_japanese(outs[attempt + 1])
         IN  IF result # EMPTY /\ is_japanese(result)
             THEN [ret |-> result, calls |-> attempt + 1, sleeps |-> attempt]
             ELSE JapaneseLoop(outs, attempt + 1, result)

safe_translate_to_japanese(outs) == JapaneseLoop(outs, 0, EMPTY)

\* What a caller of safe_translate may get back, over all service behaviours.
EnglishResults == {safe_translate_to_english(o).ret : o \in OutcomeSeqs}

JapaneseResults == {safe_translate_to_japanese(o).ret : o \in OutcomeSeqs}

(***************************************************************************)
(* Configuration.  bot.py pairs one Japanese channel with one English      *)
(* channel; the code also serves a channel paired with itself, so the      *)
(* table here holds one pair of each kind.  "other" is a channel the bot   *)
(* sees that is in neither table.                                          *)
(***************************************************************************)
CHANNEL_JA_EN_PAIRS == [c \in {"ja", "self"} |-> IF c = "ja" THEN "en" ELSE "self"]

CHANNEL_EN_JA ==
    [v \in {CHANNEL_JA_EN_PAIRS[k] : k \in DOMAIN CHANNEL_JA_EN_PAIRS} |->
        CHOOSE k \in DOMAIN CHANNEL_JA_EN_PAIRS : CHANNEL_JA_EN_PAIRS[k] = v]

Channels == {"ja", "en", "self", "other"}

Routed(c) == c \in DOMAIN CHANNEL_JA_EN_PAIRS \/ c \in DOMAIN CHANNEL_EN_JA

ENABLE_COMPARISON == FALSE

\* conversation_memory keeps the last 10 lines of a channel
MEMORY_LIMIT == 10
\* channel.history(limit=10)
HISTORY_LIMIT == 10

\* display names and mention of the one human user and of the bot
HUMAN_NAME == <<117>>
BOT_NAME == <<66>>
HUMAN_MENTION == <<60, 64, 49, 62>>
\* the suggestion prompt the bot posts: a speech balloon and "Reply"
SUGGESTION_TEXT == <<128172, 32, 82, 101, 112, 108, 121>>

\* attachments of a message without text: an image and a document
IMAGE_TYPE == <<105, 109, 97, 103, 101, 47, 112, 110, 103>>
PDF_TYPE == <<97, 112, 112, 47, 112, 100, 102>>
ATTACHMENTS ==
    << [content_type |-> IMAGE_TYPE, url |-> <<104, 116, 116, 112, 49>>],
       [content_type |-> PDF_TYPE, url |-> <<104, 116, 116, 112, 50>>] >>

\* What a user may post: Japanese text, English text, or attachments alone.
Shape(content) == [content |-> content, att |-> IF content = EMPTY THEN ATTACHMENTS ELSE << >>]

\* The posts of a run, by channel: every text in the paired channels, both
\* languages in the self-paired channel, one post in the unrouted channel.
Posts(c) ==
    CASE c = "ja" -> {Shape(JA_TEXT), Shape(EN_TEXT), Shape(EMPTY)}
      [] c = "en" -> {Shape(JA_TEXT), Shape(EN_TEXT)}
      [] c = "self" -> {Shape(JA_TEXT), Shape(EN_TEXT)}
      [] OTHER -> {Shape(EN_TEXT)}

\* What a user may change a message's text to.
EditTexts == {JA_TEXT, EN_TEXT}

(***************************************************************************)
(* State.                                                                  *)
(***************************************************************************)
VARIABLES
    msgs,                \* platform: the messages posted in this run, by id
    gateway,             \* platform: events sent to the bot, not yet dispatched
    nuser,               \* number of user actions so far
    cache,               \* bot: content of each message object it holds
    forward_map,         \* bot: (channel id, message id) -> message
    conversation_memory, \* bot: channel id -> lines
    suggestion_messages, \* bot: channel id -> suggestion message, 0 if no key
    tasks,               \* bot: the suspended handlers
    ready,               \* bot: the on_ready handler
    escaped,             \* handlers an exception escaped from
    recorded,            \* source messages whose relay reached lines 434-435
    del_handled,         \* messages whose delete event has been dispatched
    edit_calls,          \* per edit event: what the handler did
    del_log,             \* per message: what each handling of its delete event did
    st,                  \* a safe_translate call on its own (SpecTranslate)
    comparisons,         \* the run_comparison_task tasks, by message
    lm_lock,             \* the asyncio.Lock around the local-model queries
    lm_trace,            \* the local-model queries in the order they were made
    panels,              \* platform: the voting panels sent
    votes,               \* the button handlers (log_result)
    vote_log             \* the rows of comparison_log.csv

vars ==
    <<msgs, gateway, nuser, cache, forward_map, conversation_memory,
      suggestion_messages, tasks, ready, escaped, recorded, del_handled,
      edit_calls, del_log, st, comparisons, lm_lock, lm_trace, panels, votes, vote_log>>

CmpVars == <<comparisons, lm_lock, lm_trace, panels, votes, vote_log>>

(***************************************************************************)
(* Helpers over the bot's data.                                            *)
(***************************************************************************)
\* d[k] = v for a Python dict d
Put(d, k, v) == [x \in DOMAIN d \cup {k} |-> IF x = k THEN v ELSE d[x]]

\* d.pop(k)
Pop(d, k) == [x \in DOMAIN d \ {k} |-> d[x]]

\* f"{display_name}: {content}"
Line(name, content) == name \o <<58, 32>> \o content

\* lines[:10], the first ten kept instead of the last
FirstLines(lines) ==
    IF Len(lines) > 10 THEN SubSeq(lines, 1, 10) ELSE lines

\* lines[-10:]
LastLines(lines) ==
    IF Len(lines) > MEMORY_LIMIT
    THEN SubSeq(lines, Len(lines) - MEMORY_LIMIT + 1, Len(lines))
    ELSE lines

\* The three statements that update the memory of a channel (lines 364-366,
\* 473-475, 493-495): setdefault, append, keep the last 10.
Remember(cm, c, line) == [cm EXCEPT ![c] = LastLines(Append(cm[c], line))]

RECURSIVE JoinLines(_)
JoinLines(lines) ==
    IF lines = << >> THEN << >>
    ELSE IF Len(lines) = 1 THEN lines[1]
    ELSE lines[1] \o <<10>> \o JoinLines(Tail(lines))

\* get_conversation_context, on the memory given
get_conversation_context(cm, c) == JoinLines(cm[c])

StartsWith(t, prefix) ==
    Len(t) >= Len(prefix) /\ SubSeq(t, 1, Len(prefix)) = prefix

\* "image"
IMAGE_PREFIX == <<105, 109, 97, 103, 101>>

RECURSIVE ImageLinks(_)
ImageLinks(att) ==
    IF att = << >> THEN << >>
    ELSE IF Head(att).content_type # << >> /\ StartsWith(Head(att).content_type, IMAGE_PREFIX)
         THEN <<Head(att).url>> \o ImageLinks(Tail(att))
         ELSE ImageLinks(Tail(att))

\* build_forward_content: "__**{mention}**__\n", the text, the image links
build_forward_content(mention, att, translated_text) ==
    LET header == <<95, 95, 42, 42>> \o mention \o <<42, 42, 95, 95, 10>>
        content == IF translated_text # EMPTY THEN header \o translated_text ELSE header
        image_links == ImageLinks(att)
    IN  IF image_links # << >>
        THEN content \o <<10>> \o JoinLines(image_links)
        ELSE content

(***************************************************************************)
(* Routing (forward_message, lines 368-414).  target is the channel the    *)
(* copy goes to; mode says what becomes of the text: "en" / "ja" call      *)
(* safe_translate_to_english / _japanese, "copy" passes the text on,       *)
(* "none" is a message without text, "drop" a channel in no table.         *)
(***************************************************************************)
\* forward_message with the test for a self-paired channel (line 369) put
\* after the test of line 386
forward_plan_unordered(c, content) ==
    IF c \in DOMAIN CHANNEL_JA_EN_PAIRS
    THEN [target |-> CHANNEL_JA_EN_PAIRS[c],
          mode |-> IF content # EMPTY
                   THEN (IF is_japanese(content) THEN "en" ELSE "copy")
                   ELSE "none"]
    ELSE IF c \in DOMAIN CHANNEL_EN_JA
    THEN [target |-> CHANNEL_EN_JA[c],
          mode |-> IF content # EMPTY
                   THEN (IF ~is_japanese(content) THEN "ja" ELSE "copy")
                   ELSE "none"]
    ELSE [target |-> c, mode |-> "drop"]

forward_plan(c, content) ==
    IF c \in DOMAIN CHANNEL_JA_EN_PAIRS /\ CHANNEL_JA_EN_PAIRS[c] = c
    THEN [target |-> c,
          mode |-> IF content # EMPTY
                   THEN (IF is_japanese(content) THEN "en" ELSE "ja")
                   ELSE "none"]
    ELSE IF c \in DOMAIN CHANNEL_JA_EN_PAIRS
    THEN [target |-> CHANNEL_JA_EN_PAIRS[c],
          mode |-> IF content # EMPTY
                   THEN (IF is_japanese(content) THEN "en" ELSE "copy")
                   ELSE "none"]
    ELSE IF c \in DOMAIN CHANNEL_EN_JA
    THEN [target |-> CHANNEL_EN_JA[c],
          mode |-> IF content # EMPTY
                   THEN (IF ~is_japanese(content) THEN "ja" ELSE "copy")
                   ELSE "none"]
    ELSE [target |-> c, mode |-> "drop"]

\* on_message_edit with the test of its last branch turned round
edit_plan_swapped(c, content) ==
    IF c \in DOMAIN CHANNEL_JA_EN_PAIRS /\ CHANNEL_JA_EN_PAIRS[c] = c
    THEN IF content # EMPTY
         THEN (IF is_japanese(content) THEN "en" ELSE "ja")
         ELSE "none"
    ELSE IF c \in DOMAIN CHANNEL_JA_EN_PAIRS
    THEN IF content # EMPTY
         THEN (IF is_japanese(content) THEN "en" ELSE "copy")
         ELSE "none"
    ELSE IF content # EMPTY
         THEN (IF is_japanese(content) THEN "ja" ELSE "copy")
         ELSE "none"

\* The same choice in on_message_edit (lines 502-541); the last branch is a
\* plain else.
edit_plan(c, content) ==
    IF c \in DOMAIN CHANNEL_JA_EN_PAIRS /\ CHANNEL_JA_EN_PAIRS[c] = c
    THEN IF content # EMPTY
         THEN (IF is_japanese(content) THEN "en" ELSE "ja")
         ELSE "none"
    ELSE IF c \in DOMAIN CHANNEL_JA_EN_PAIRS
    THEN IF content # EMPTY
         THEN (IF is_japanese(content) THEN "en" ELSE "copy")
         ELSE "none"
    ELSE IF content # EMPTY
         THEN (IF ~is_japanese(content) THEN "ja" ELSE "copy")
         ELSE "none"

\* The values `translated` may take once the awaited call is over.
Translations(mode, content) ==
    CASE mode = "en" -> EnglishResults
      [] mode = "ja" -> JapaneseResults
      [] mode = "copy" -> {content}
      [] OTHER -> {EMPTY}

\* The reply reference without the test of line 422
reply_ref_any(fmap, source_channel_id, ref_id, target) ==
    IF ref_id # 0 /\ <<source_channel_id, ref_id>> \in DOMAIN fmap
    THEN fmap[<<source_channel_id, ref_id>>]
    ELSE 0

\* Lines 416-423: the message the copy replies to, 0 for None.  ref_id is
\* message.reference.message_id, 0 when the message is no reply.
reply_ref(fmap, source_channel_id, ref_id, target) ==
    LET key == <<source_channel_id, ref_id>>
        ref == IF ref_id # 0 /\ key \in DOMAIN fmap THEN fmap[key] ELSE 0
    IN  IF ref # 0 /\ msgs[ref].ch # target THEN 0 ELSE ref

\* Line 434 without line 435
record_forward_oneway(fmap, source_channel_id, mid, target, fid) ==
    Put(fmap, <<source_channel_id, mid>>, fid)

\* Lines 434-435
record_forward(fmap, source_channel_id, mid, target, fid) ==
    Put(Put(fmap, <<source_channel_id, mid>>, fid), <<target, fid>>, mid)

\* Line 559 without lines 560-562
pop_forward_source(fmap, key) == Pop(fmap, key)

\* Lines 558-562, when the key is in the map
pop_forward(fmap, key) ==
    LET forwarded_msg == fmap[key]
        rest == Pop(fmap, key)
        key_target == <<msgs[forwarded_msg].ch, forwarded_msg>>
    IN  IF key_target \in DOMAIN rest THEN Pop(rest, key_target) ELSE rest

(***************************************************************************)
(* The platform.                                                           *)
(***************************************************************************)
\* Messages that were in the "ja" channel before the bot started.
OldJa == 11

\* How many times the platform delivers the delete event of one message.
MaxDeleteEvents == 2

\* A channel's earlier messages, newest first; the second newest is a bot's.
OldHistory(c) ==
    IF c = "ja"
    THEN [i \in 1..OldJa |-> [bot |-> (i = 2), content |-> <<48 + i>>]]
    ELSE << >>

Reverse(s) == [i \in 1..Len(s) |-> s[Len(s) + 1 - i]]

\* The messages of this run still in channel c, oldest first.
RECURSIVE InRun(_, _)
InRun(c, n) ==
    IF n = 0 THEN << >>
    ELSE IF msgs[n].ch = c /\ ~msgs[n].deleted
         THEN Append(InRun(c, n - 1),
                     [bot |-> msgs[n].kind # "human", content |-> msgs[n].content])
         ELSE InRun(c, n - 1)

RECURSIVE HumanLines(_)
HumanLines(h) ==
    IF h = << >> THEN << >>
    ELSE IF ~Head(h).bot
         THEN <<Line(HUMAN_NAME, Head(h).content)>> \o HumanLines(Tail(h))
         ELSE HumanLines(Tail(h))

\* Lines 337-342: channel.history(limit=10) is newest first; the lines of
\* its human messages, put back in chronological order.
FetchHistory(c) ==
    LET all == Reverse(InRun(c, Len(msgs))) \o OldHistory(c)
        got == SubSeq(all, 1, IF Len(all) < HISTORY_LIMIT THEN Len(all) ELSE HISTORY_LIMIT)
    IN  Reverse(HumanLines(got))

\* A message as the platform keeps it.  src is the message a copy was made
\* for and of the text of that message the copy's content was made from.
NewMsg(c, kind, content, att, ref, src) ==
    [ch |-> c, kind |-> kind, content |-> content, att |-> att, ref |-> ref,
     src |-> src, deleted |-> FALSE, edits |-> 0, of |-> EMPTY]

Event(type, id, content, k) == [type |-> type, id |-> id, content |-> content, k |-> k]

\* A send replying to a message that is gone is refused by the platform;
\* any other send may succeed or fail.
SendOutcomes(ref) == IF ref # 0 /\ msgs[ref].deleted THEN {FALSE} ELSE BOOLEAN

\* Message.delete(): refused when the message is already gone.
DeleteOn(ms, id) == [ms EXCEPT ![id].deleted = TRUE]

\* The event the platform sends when a message goes.  The deletion of a
\* suggestion prompt is left out: bot-authored, it makes on_message_delete
\* return at line 552 and no part of the model looks at it.
DeleteEvents(gw, id) ==
    IF msgs[id].deleted \/ msgs[id].kind = "sugg"
    THEN gw
    ELSE Append(gw, Event("delete", id, EMPTY, 0))

(***************************************************************************)
(* Suspended handlers.  A handler is keyed by the event it handles.        *)
(***************************************************************************)
NewTask ==
    [pc |-> "", mode |-> "", context |-> EMPTY, ref |-> 0, res |-> 0,
     tch |-> "", target |-> 0, content |-> EMPTY]

StIdle == [pc |-> "off", dir |-> "", outs |-> << >>,
           res |-> [ret |-> EMPTY, calls |-> 0, sleeps |-> 0]]

Init ==
    /\ msgs = << >>
    /\ gateway = <<Event("ready", 0, EMPTY, 0)>>
    /\ nuser = 0
    /\ cache = << >>
    /\ forward_map = << >>
    /\ conversation_memory = [c \in Channels |-> << >>]
    /\ suggestion_messages = [c \in Channels |-> 0]
    /\ tasks = << >>
    /\ ready = [pc |-> "idle", cur |-> 0, hist |-> << >>]
    /\ escaped = {}
    /\ recorded = {}
    /\ del_handled = {}
    /\ edit_calls = << >>
    /\ del_log = << >>
    /\ st = StIdle
    /\ comparisons = << >>
    /\ lm_lock = [locked |-> FALSE, waiters |-> << >>]
    /\ lm_trace = << >>
    /\ panels = << >>
    /\ votes = << >>
    /\ vote_log = << >>

BotState == <<cache, forward_map, conversation_memory, suggestion_messages, tasks, ready>>
Ghosts == <<escaped, recorded, del_handled, edit_calls, del_log>>

(***************************************************************************)
(* Users.  They act once the startup seeding of on_ready is over.          *)
(***************************************************************************)
UserCreate(c, shape, ref) ==
    /\ nuser < MaxUserActions
    /\ ready.pc = "done"
    /\ shape \in Posts(c)
    /\ ref = 0 \/ (ref \in 1..Len(msgs) /\ msgs[ref].ch = c /\ ~msgs[ref].deleted)
    /\ msgs' = Append(msgs, NewMsg(c, "human", shape.content, shape.att, ref, 0))
    /\ gateway' = Append(gateway, Event("create", Len(msgs) + 1, shape.content, 0))
    /\ nuser' = nuser + 1
    /\ UNCHANGED <<BotState, Ghosts, st,
                   CmpVars>>

UserEdit(id, text) ==
    /\ nuser < MaxUserActions
    /\ ready.pc = "done"
    /\ id \in 1..Len(msgs)
    /\ msgs[id].kind = "human" /\ ~msgs[id].deleted /\ msgs[id].content # text
    /\ msgs' = [msgs EXCEPT ![id].content = text, ![id].edits = @ + 1]
    /\ gateway' = Append(gateway, Event("edit", id, text, msgs[id].edits + 1))
    /\ nuser' = nuser + 1
    /\ UNCHANGED <<BotState, Ghosts, st,
                   CmpVars>>

\* A user deletes a message of their own, or a moderator a copy the bot sent.
UserDelete(id) ==
    /\ nuser < MaxUserActions
    /\ ready.pc = "done"
    /\ id \in 1..Len(msgs)
    /\ msgs[id].kind \in {"human", "fwd"} /\ ~msgs[id].deleted
    /\ msgs' = DeleteOn(msgs, id)
    /\ gateway' = DeleteEvents(gateway, id)
    /\ nuser' = nuser + 1
    /\ UNCHANGED <<BotState, Ghosts, st,
                   CmpVars>>

(***************************************************************************)
(* on_message and forward_message.  Each operator below is the code from   *)
(* one await to the next; a platform call takes effect when it is made     *)
(* and its answer reaches the handler in a later step.  fm, cm, sm and gw  *)
(* are forward_map, conversation_memory, suggestion_messages and the       *)
(* gateway as the step has left them so far.                               *)
(***************************************************************************)
\* Lines 416-432: the reply reference, the content, the call of send.
SendCopy(key, id, tch, fm, cm, sm, gw, translated, text) ==
    LET c == msgs[id].ch
        ref == reply_ref(fm, c, msgs[id].ref, tch)
        content_to_send == build_forward_content(HUMAN_MENTION, msgs[id].att, translated)
        fid == Len(msgs) + 1
    IN  \E ok \in SendOutcomes(ref) :
            /\ msgs' = IF ok
                       THEN Append(msgs, [NewMsg(tch, "fwd", content_to_send, << >>, ref, id)
                                              EXCEPT !.of = text])
                       ELSE msgs
            /\ gateway' = IF ok THEN Append(gw, Event("create", fid, content_to_send, 0)) ELSE gw
            /\ tasks' = Put(tasks, key,
                            [NewTask EXCEPT !.pc = "send_wait", !.tch = tch, !.ref = ref,
                                            !.res = IF ok THEN fid ELSE 0])
            /\ forward_map' = fm
            /\ conversation_memory' = cm
            /\ suggestion_messages' = sm

\* Lines 362-414: the second update of the memory, the routing, and the call
\* of safe_translate where the text needs translating.
forward_message(key, id, content, fm, cm, sm, gw) ==
    LET c == msgs[id].ch
        cm2 == Remember(cm, c, Line(HUMAN_NAME, content))
        plan == forward_plan(c, content)
    IN  IF plan.mode \in {"en", "ja"}
        THEN /\ tasks' = Put(tasks, key,
                             [NewTask EXCEPT !.pc = "translate_wait", !.mode = plan.mode,
                                             !.tch = plan.target, !.content = content,
                                             !.context = get_conversation_context(cm2, c)])
             /\ msgs' = msgs
             /\ gateway' = gw
             /\ forward_map' = fm
             /\ conversation_memory' = cm2
             /\ suggestion_messages' = sm
        ELSE SendCopy(key, id, plan.target, fm, cm2, sm, gw,
                      IF plan.mode = "copy" THEN content ELSE EMPTY, content)

\* Lines 471-483
on_message_body(key, id, content, fm, cm, sm, gw) ==
    LET c == msgs[id].ch
        bot == msgs[id].kind # "human"
        fm1 == IF Routed(c) THEN Put(fm, <<c, id>>, id) ELSE fm
        cm1 == IF Routed(c)
               THEN Remember(cm, c, Line(IF bot THEN BOT_NAME ELSE HUMAN_NAME, content))
               ELSE cm
    IN  IF bot \/ ~Routed(c)
        THEN /\ tasks' = Pop(tasks, key)
             /\ msgs' = msgs
             /\ gateway' = gw
             /\ forward_map' = fm1
             /\ conversation_memory' = cm1
             /\ suggestion_messages' = sm
        ELSE forward_message(key, id, content, fm1, cm1, sm, gw)

\* on_message, lines 460-466 and on when there is no suggestion to retract
DispatchCreate ==
    /\ gateway # << >>
    /\ Head(gateway).type = "create"
    /\ LET ev == Head(gateway)
           id == ev.id
           c == msgs[id].ch
           msg == suggestion_messages[c]
           key == <<"msg", id, 0>>
       IN  /\ cache' = Put(cache, id, ev.content)
           /\ IF msg # 0 /\ msg # id
              THEN /\ msgs' = DeleteOn(msgs, msg)
                   /\ gateway' = DeleteEvents(Tail(gateway), msg)
                   /\ tasks' = Put(tasks, key, [NewTask EXCEPT !.pc = "om_delete_wait"])
                   /\ UNCHANGED <<forward_map, conversation_memory, suggestion_messages>>
              ELSE on_message_body(key, id, ev.content, forward_map, conversation_memory,
                                   suggestion_messages, Tail(gateway))
    /\ UNCHANGED <<nuser, ready, Ghosts, st,
                   CmpVars>>

\* Line 469, then the rest of on_message.  del raises KeyError when another
\* handler has removed the key meanwhile.
ResumeOnMessageDelete(key) ==
    /\ key \in DOMAIN tasks
    /\ tasks[key].pc = "om_delete_wait"
    /\ LET id == key[2]
           c == msgs[id].ch
       IN  IF suggestion_messages[c] = 0
           THEN /\ escaped' = escaped \cup {key}
                /\ tasks' = Pop(tasks, key)
                /\ UNCHANGED <<msgs, gateway, forward_map, conversation_memory,
                               suggestion_messages>>
           ELSE /\ escaped' = escaped
                /\ on_message_body(key, id, cache[id], forward_map, conversation_memory,
                                   [suggestion_messages EXCEPT ![c] = 0], gateway)
    /\ UNCHANGED <<nuser, cache, ready, recorded, del_handled, edit_calls, del_log, st,
                   CmpVars>>

\* The same with message.content read again once safe_translate is back
ResumeTranslateReread(key) ==
    /\ key \in DOMAIN tasks
    /\ key[1] = "msg"
    /\ tasks[key].pc = "translate_wait"
    /\ \E translated \in Translations(forward_plan(msgs[key[2]].ch, cache[key[2]]).mode,
                                       cache[key[2]]) :
           SendCopy(key, key[2], tasks[key].tch, forward_map, conversation_memory,
                    suggestion_messages, gateway, translated, cache[key[2]])
    /\ UNCHANGED <<nuser, cache, ready, Ghosts, st,
                   CmpVars>>

\* safe_translate returns (lines 375-408); the handler goes on to the send.
\* The text translated is the one read before the call.
ResumeTranslate(key) ==
    /\ key \in DOMAIN tasks
    /\ key[1] = "msg"
    /\ tasks[key].pc = "translate_wait"
    /\ \E translated \in Translations(tasks[key].mode, tasks[key].content) :
           SendCopy(key, key[2], tasks[key].tch, forward_map, conversation_memory,
                    suggestion_messages, gateway, translated, tasks[key].content)
    /\ UNCHANGED <<nuser, cache, ready, Ghosts, st,
                   CmpVars>>

\* Lines 446-449: the suggestion prompt is sent to the source channel.
SendSuggestion(key, id, fm, sm) ==
    LET c == msgs[id].ch
        sid == Len(msgs) + 1
    IN  \E ok \in BOOLEAN :
            /\ msgs' = IF ok
                       THEN Append(msgs, NewMsg(c, "sugg", SUGGESTION_TEXT, << >>, 0, id))
                       ELSE msgs
            /\ gateway' = IF ok
                          THEN Append(gateway, Event("create", sid, SUGGESTION_TEXT, 0))
                          ELSE gateway
            /\ tasks' = Put(tasks, key,
                            [NewTask EXCEPT !.pc = "suggest_wait", !.res = IF ok THEN sid ELSE 0])
            /\ forward_map' = fm
            /\ suggestion_messages' = sm

\* send returns (line 432): lines 434-441, or the exception leaves the handler.
ResumeSend(key) ==
    /\ key \in DOMAIN tasks
    /\ tasks[key].pc = "send_wait"
    /\ LET id == key[2]
           c == msgs[id].ch
           t == tasks[key]
           fm == record_forward(forward_map, c, id, t.tch, t.res)
       IN  IF t.res = 0
           THEN /\ escaped' = escaped \cup {key}
                /\ tasks' = Pop(tasks, key)
                /\ UNCHANGED <<msgs, gateway, forward_map, suggestion_messages, recorded>>
           ELSE /\ escaped' = escaped
                /\ recorded' = recorded \cup {id}
                /\ IF cache[id] = EMPTY
                   THEN /\ forward_map' = fm
                        /\ tasks' = Pop(tasks, key)
                        /\ UNCHANGED <<msgs, gateway, suggestion_messages>>
                   ELSE IF suggestion_messages[c] # 0
                   THEN /\ forward_map' = fm
                        /\ msgs' = DeleteOn(msgs, suggestion_messages[c])
                        /\ gateway' = DeleteEvents(gateway, suggestion_messages[c])
                        /\ tasks' = Put(tasks, key, [NewTask EXCEPT !.pc = "fm_delete_wait"])
                        /\ UNCHANGED suggestion_messages
                   ELSE SendSuggestion(key, id, fm, suggestion_messages)
    /\ UNCHANGED <<nuser, cache, conversation_memory, ready, del_handled, edit_calls,
                   del_log, st,
                   CmpVars>>

\* Line 444, then the suggestion is sent.
ResumeSuggestionDelete(key) ==
    /\ key \in DOMAIN tasks
    /\ tasks[key].pc = "fm_delete_wait"
    /\ LET id == key[2]
           c == msgs[id].ch
       IN  IF suggestion_messages[c] = 0
           THEN /\ escaped' = escaped \cup {key}
                /\ tasks' = Pop(tasks, key)
                /\ UNCHANGED <<msgs, gateway, forward_map, suggestion_messages>>
           ELSE /\ escaped' = escaped
                /\ SendSuggestion(key, id, forward_map, [suggestion_messages EXCEPT ![c] = 0])
    /\ UNCHANGED <<nuser, cache, conversation_memory, ready, recorded, del_handled,
                   edit_calls, del_log, st,
                   CmpVars>>

\* Lines 448-457: the send of the suggestion returns.  ENABLE_COMPARISON is
\* False, so no comparison is started.
ResumeSuggestion(key) ==
    /\ key \in DOMAIN tasks
    /\ tasks[key].pc = "suggest_wait"
    /\ suggestion_messages' =
           IF tasks[key].res # 0
           THEN [suggestion_messages EXCEPT ![msgs[key[2]].ch] = tasks[key].res]
           ELSE suggestion_messages
    /\ tasks' = Pop(tasks, key)
    /\ UNCHANGED <<msgs, gateway, nuser, cache, forward_map, conversation_memory, ready,
                   Ghosts, st,
                   CmpVars>>

(***************************************************************************)
(* on_message_edit.                                                        *)
(***************************************************************************)
\* Message.edit(): the bot may edit only messages of its own that still exist.
\* The edit event of a message of the bot makes on_message_edit return at
\* line 488, so the gateway does not carry it here.
Edited(ms, target, ok) == ok /\ ms[target].kind # "human" /\ ~ms[target].deleted

EditOn(ms, target, content, ok) ==
    IF Edited(ms, target, ok)
    THEN [ms EXCEPT ![target].content = content]
    ELSE ms

\* Lines 543-545: the new content and the call of forwarded_msg.edit.
EditCopy(key, id, target, content, gw, cm, calls, translated) ==
    LET new_content == build_forward_content(HUMAN_MENTION, msgs[id].att, translated)
    IN  \E ok \in BOOLEAN :
            /\ msgs' = IF Edited(msgs, target, ok)
                       THEN [EditOn(msgs, target, new_content, ok) EXCEPT ![target].of = content]
                       ELSE msgs
            /\ gateway' = gw
            /\ tasks' = Put(tasks, key,
                            [NewTask EXCEPT !.pc = "edit_wait", !.target = target,
                                            !.res = IF Edited(msgs, target, ok) THEN 1 ELSE 0])
            /\ edit_calls' =
                   Put(calls, key,
                       [calls[key] EXCEPT
                           !.edits = Append(@, [target |-> target, content |-> new_content])])
            /\ conversation_memory' = cm

\* on_message_edit up to its first await (lines 486-541)
DispatchEdit ==
    /\ gateway # << >>
    /\ Head(gateway).type = "edit"
    /\ LET ev == Head(gateway)
           id == ev.id
           source_channel_id == msgs[id].ch
           key == <<"edit", id, ev.k>>
           fkey == <<source_channel_id, id>>
           cm == Remember(conversation_memory, source_channel_id,
                          Line(HUMAN_NAME, ev.content))
           mode == edit_plan(source_channel_id, ev.content)
           calls == Put(edit_calls, key,
                        [relayed |-> id \in recorded,
                         racing |-> {tasks[k].pc : k \in {x \in DOMAIN tasks : x[2] = id}},
                         content |-> ev.content,
                         context |-> get_conversation_context(cm, source_channel_id),
                         mode |-> mode, edits |-> << >>])
       IN  /\ cache' = [cache EXCEPT ![id] = ev.content]
           /\ IF msgs[id].kind # "human" \/ ~Routed(source_channel_id)
              THEN UNCHANGED <<msgs, tasks, conversation_memory, edit_calls>>
                   /\ gateway' = Tail(gateway)
              ELSE IF fkey \notin DOMAIN forward_map
              THEN /\ conversation_memory' = cm
                   /\ edit_calls' = calls
                   /\ gateway' = Tail(gateway)
                   /\ UNCHANGED <<msgs, tasks>>
              ELSE IF mode \in {"en", "ja"}
              THEN /\ conversation_memory' = cm
                   /\ edit_calls' = calls
                   /\ gateway' = Tail(gateway)
                   /\ tasks' = Put(tasks, key,
                                   [NewTask EXCEPT
                                       !.pc = "translate_wait", !.mode = mode,
                                       !.target = forward_map[fkey], !.content = ev.content,
                                       !.context = get_conversation_context(cm, source_channel_id)])
                   /\ UNCHANGED msgs
              ELSE EditCopy(key, id, forward_map[fkey], ev.content, Tail(gateway), cm, calls,
                            IF mode = "copy" THEN ev.content ELSE EMPTY)
    /\ UNCHANGED <<nuser, forward_map, suggestion_messages, ready, escaped, recorded,
                   del_handled, del_log, st,
                   CmpVars>>

\* safe_translate returns in on_message_edit
ResumeEditTranslate(key) ==
    /\ key \in DOMAIN tasks
    /\ key[1] = "edit"
    /\ tasks[key].pc = "translate_wait"
    /\ \E translated \in Translations(tasks[key].mode, tasks[key].content) :
           EditCopy(key, key[2], tasks[key].target, tasks[key].content, gateway,
                    conversation_memory, edit_calls, translated)
    /\ UNCHANGED <<nuser, cache, forward_map, suggestion_messages, ready, escaped, recorded,
                   del_handled, del_log, st,
                   CmpVars>>

\* forwarded_msg.edit returns or raises (lines 544-547); either way the
\* handler ends.
ResumeEdit(key) ==
    /\ key \in DOMAIN tasks
    /\ tasks[key].pc = "edit_wait"
    /\ tasks' = Pop(tasks, key)
    /\ escaped' = escaped
    /\ UNCHANGED <<msgs, gateway, nuser, cache, forward_map, conversation_memory,
                   suggestion_messages, ready, recorded, del_handled, edit_calls, del_log, st,
                   CmpVars>>

(***************************************************************************)
(* on_message_delete.                                                      *)
(***************************************************************************)
\* Message.delete(): refused when the message is already gone; otherwise it
\* may go through or fail (network, permissions).
DeleteOutcomes(id) == IF msgs[id].deleted THEN {FALSE} ELSE BOOLEAN

\* Lines 550-564, up to the await of forwarded_msg.delete()
DispatchDelete ==
    /\ gateway # << >>
    /\ Head(gateway).type = "delete"
    /\ LET id == Head(gateway).id
           source_channel_id == msgs[id].ch
           key == <<source_channel_id, id>>
           log == IF id \in DOMAIN del_log THEN del_log[id] ELSE << >>
       IN  /\ del_handled' = del_handled \cup {id}
           /\ IF msgs[id].kind # "human" \/ ~Routed(source_channel_id)
                 \/ key \notin DOMAIN forward_map
              THEN /\ gateway' = Tail(gateway)
                   /\ del_log' = Put(del_log, id,
                                     Append(log, [relayed |-> id \in recorded, target |-> 0]))
                   /\ UNCHANGED <<msgs, forward_map, tasks>>
              ELSE \E ok \in DeleteOutcomes(forward_map[key]) :
                       /\ forward_map' = pop_forward(forward_map, key)
                       /\ msgs' = IF ok THEN DeleteOn(msgs, forward_map[key]) ELSE msgs
                       /\ gateway' = IF ok
                                     THEN DeleteEvents(Tail(gateway), forward_map[key])
                                     ELSE Tail(gateway)
                       /\ tasks' = Put(tasks, <<"delete", id, Len(log)>>,
                                       [NewTask EXCEPT !.pc = "delete_wait",
                                                       !.target = forward_map[key],
                                                       !.res = IF ok THEN 1 ELSE 0])
                       /\ del_log' = Put(del_log, id,
                                         Append(log, [relayed |-> id \in recorded,
                                                      target |-> forward_map[key]]))
    /\ UNCHANGED <<nuser, cache, conversation_memory, suggestion_messages, ready, escaped,
                   recorded, edit_calls, st,
                   CmpVars>>

\* Lines 563-566 with the except clause left out: the failure of delete
\* leaves the handler.
ResumeDeleteRaise(key) ==
    /\ key \in DOMAIN tasks
    /\ tasks[key].pc = "delete_wait"
    /\ tasks' = Pop(tasks, key)
    /\ escaped' = IF tasks[key].res = 0 THEN escaped \cup {key} ELSE escaped
    /\ UNCHANGED <<msgs, gateway, nuser, cache, forward_map, conversation_memory,
                   suggestion_messages, ready, recorded, del_handled, edit_calls, del_log, st,
                   CmpVars>>

\* Lines 563-566: delete returns, or raises and the exception is caught and
\* printed; either way the handler ends.
ResumeDelete(key) ==
    /\ key \in DOMAIN tasks
    /\ tasks[key].pc = "delete_wait"
    /\ tasks' = Pop(tasks, key)
    /\ escaped' = escaped
    /\ UNCHANGED <<msgs, gateway, nuser, cache, forward_map, conversation_memory,
                   suggestion_messages, ready, recorded, del_handled, edit_calls, del_log, st,
                   CmpVars>>

\* The platform delivers the delete event of a human's message once more
\* after the bot has handled it (a replay of the gateway).
RedeliverDelete(id) ==
    /\ id \in DOMAIN del_log
    /\ Len(del_log[id]) < MaxDeleteEvents
    /\ msgs[id].kind = "human"
    /\ \A i \in 1..Len(gateway) : ~(gateway[i].type = "delete" /\ gateway[i].id = id)
    /\ gateway' = Append(gateway, Event("delete", id, EMPTY, 0))
    /\ UNCHANGED <<msgs, nuser, BotState, Ghosts, st,
                   CmpVars>>

(***************************************************************************)
(* on_ready: the memory of each monitored channel is seeded from the       *)
(* channel's history, one channel after the other.                         *)
(***************************************************************************)
\* set(CHANNEL_JA_EN_PAIRS.keys()) | set(CHANNEL_EN_JA.keys()), in the order
\* the loop meets its members (the order of a set of ints is fixed by the ids).
target_channels == <<"ja", "en", "self">>

\* Lines 326-338: the handler starts and asks for the first history.
DispatchReady ==
    /\ gateway # << >>
    /\ Head(gateway).type = "ready"
    /\ gateway' = Tail(gateway)
    /\ ready' = [pc |-> "fetch", cur |-> 1, hist |-> FetchHistory(target_channels[1])]
    /\ UNCHANGED <<msgs, nuser, cache, forward_map, conversation_memory,
                   suggestion_messages, tasks, Ghosts, st,
                   CmpVars>>

\* Lines 338-343: a history arrives; the memory of the channel is replaced,
\* and the next channel's history is asked for.
ResumeReady ==
    /\ ready.pc = "fetch"
    /\ conversation_memory' =
           [conversation_memory EXCEPT ![target_channels[ready.cur]] = ready.hist]
    /\ ready' = IF ready.cur = Len(target_channels)
                THEN [pc |-> "done", cur |-> 0, hist |-> << >>]
                ELSE [pc |-> "fetch", cur |-> ready.cur + 1,
                      hist |-> FetchHistory(target_channels[ready.cur + 1])]
    /\ UNCHANGED <<msgs, gateway, nuser, cache, forward_map, suggestion_messages, tasks,
                   Ghosts, st,
                   CmpVars>>

(***************************************************************************)
(* The bot and its environment.                                            *)
(***************************************************************************)
TaskKeys == DOMAIN tasks

Next ==
    \/ \E c \in Channels : \E shape \in Posts(c), ref \in 0..Len(msgs) :
           UserCreate(c, shape, ref)
    \/ \E id \in 1..Len(msgs), text \in EditTexts : UserEdit(id, text)
    \/ \E id \in 1..Len(msgs) : UserDelete(id)
    \/ \E id \in 1..Len(msgs) : RedeliverDelete(id)
    \/ DispatchReady
    \/ ResumeReady
    \/ DispatchCreate
    \/ DispatchEdit
    \/ DispatchDelete
    \/ \E key \in TaskKeys : ResumeOnMessageDelete(key)
    \/ \E key \in TaskKeys : ResumeTranslate(key)
    \/ \E key \in TaskKeys : ResumeSend(key)
    \/ \E key \in TaskKeys : ResumeSuggestionDelete(key)
    \/ \E key \in TaskKeys : ResumeSuggestion(key)
    \/ \E key \in TaskKeys : ResumeEditTranslate(key)
    \/ \E key \in TaskKeys : ResumeEdit(key)
    \/ \E key \in TaskKeys : ResumeDelete(key)

Spec == Init /\ [][Next]_vars

(***************************************************************************)
(* safe_translate on its own: a call in either direction, meeting any      *)
(* sequence of outcomes of the translation service.                        *)
(***************************************************************************)
StartTranslate(dir, outs) ==
    /\ st.pc = "off"
    /\ st' = [st EXCEPT !.pc = "call", !.dir = dir, !.outs = outs]
    /\ UNCHANGED <<msgs, gateway, nuser, BotState, Ghosts, CmpVars>>

ReturnTranslate ==
    /\ st.pc = "call"
    /\ st' = [st EXCEPT !.pc = "done",
                        !.res = IF st.dir = "en"
                                THEN safe_translate_to_english(st.outs)
                                ELSE safe_translate_to_japanese(st.outs)]
    /\ UNCHANGED <<msgs, gateway, nuser, BotState, Ghosts, CmpVars>>

NextTranslate ==
    \/ \E dir \in {"en", "ja"}, outs \in OutcomeSeqs : StartTranslate(dir, outs)
    \/ ReturnTranslate

SpecTranslate == Init /\ [][NextTranslate]_vars

(***************************************************************************)
(* The comparison of the local models (run_comparison_task) and the vote   *)
(* on its panel.  forward_message starts a comparison at line 455 when      *)
(* ENABLE_COMPARISON is set; this part takes the tasks as started.         *)
(***************************************************************************)
\* Messages a comparison is started for.
MaxComparisons == 2

\* Button presses in all.
MaxClicks == 2

LM_MODELS == <<"qwen/qwen3-vl-4b", "google/gemma-3-4b">>

\* "Error: "
ERROR_PREFIX == <<69, 114, 114, 111, 114, 58, 32>>

\* What the HTTP call of query_lm_studio meets: status 200, another status,
\* or an exception (timeout, refused connection).
QueryOutcomes == {"200", "500", "exc"}

\* The answer of model number i, as the server sends it.
LM_ANSWER(i) == <<32, 96 + i, 10>>

\* query_lm_studio: the stripped answer, or the text of the failure
query_lm_studio(i, outcome) ==
    CASE outcome = "200" -> Strip(LM_ANSWER(i))
      [] outcome = "500" -> ERROR_PREFIX \o <<53, 48, 48>>
      [] OTHER -> ERROR_PREFIX \o <<84>>

\* Entering the block without asking for the lock
acquire_unguarded(lock, t) ==
    [lock |-> [lock EXCEPT !.locked = TRUE], granted |-> TRUE]

\* asyncio.Lock.acquire, as `async with lm_lock` calls it: the lock is taken
\* at once when it is free and nobody waits; else the task queues up.
acquire(lock, t) ==
    IF ~lock.locked /\ lock.waiters = << >>
    THEN [lock |-> [lock EXCEPT !.locked = TRUE], granted |-> TRUE]
    ELSE [lock |-> [lock EXCEPT !.waiters = Append(@, t)], granted |-> FALSE]

\* asyncio.Lock.release, at the end of the block
release(lock) == [lock EXCEPT !.locked = FALSE]

NewComparison(text) ==
    [pc |-> "new", original_text |-> text,
     target_language |-> IF is_japanese(text) THEN "English" ELSE "Japanese",
     i |-> 0, translations |-> << >>]

Query(t, i) == [task |-> t, model |-> i]

\* The four buttons: label -> selection and winner
Buttons == {"A", "B", "Same", "Unknown"}

Selection(button, panel) ==
    CASE button = "A" -> [selection |-> "A", winner_model |-> panel.model_a_name]
      [] button = "B" -> [selection |-> "B", winner_model |-> panel.model_b_name]
      [] button = "Same" -> [selection |-> "Same", winner_model |-> "Draw"]
      [] OTHER -> [selection |-> "Unknown", winner_model |-> "N/A"]

\* The text of the message comparison t is about: Japanese and English in turn.
ComparisonTexts(t) == IF t % 2 = 1 THEN {JA_TEXT} ELSE {EN_TEXT}

RelayVars == <<msgs, gateway, nuser, BotState, Ghosts, st>>

\* Line 455: asyncio.create_task(run_comparison_task(message, context))
StartComparison(t, text) ==
    /\ t \notin DOMAIN comparisons
    /\ t = Len(comparisons) + 1
    /\ t <= MaxComparisons
    /\ comparisons' = Append(comparisons, NewComparison(text))
    /\ UNCHANGED <<RelayVars, lm_lock, lm_trace, panels, votes, vote_log>>

\* Lines 226-262: the task starts and asks for the lock.
RunComparison(t) ==
    /\ t \in DOMAIN comparisons
    /\ comparisons[t].pc = "new"
    /\ LET a == acquire(lm_lock, t)
       IN  /\ lm_lock' = a.lock
           /\ IF a.granted
              THEN /\ comparisons' = [comparisons EXCEPT ![t].pc = "query", ![t].i = 1]
                   /\ lm_trace' = Append(lm_trace, Query(t, 1))
              ELSE /\ comparisons' = [comparisons EXCEPT ![t].pc = "lock_wait"]
                   /\ lm_trace' = lm_trace
    /\ UNCHANGED <<RelayVars, panels, votes, vote_log>>

\* Line 258: the lock has been released and the first task waiting takes it.
LockGranted(t) ==
    /\ t \in DOMAIN comparisons
    /\ comparisons[t].pc = "lock_wait"
    /\ ~lm_lock.locked
    /\ lm_lock.waiters # << >>
    /\ Head(lm_lock.waiters) = t
    /\ lm_lock' = [locked |-> TRUE, waiters |-> Tail(lm_lock.waiters)]
    /\ comparisons' = [comparisons EXCEPT ![t].pc = "query", ![t].i = 1]
    /\ lm_trace' = Append(lm_trace, Query(t, 1))
    /\ UNCHANGED <<RelayVars, panels, votes, vote_log>>

\* Lines 262-265: query_lm_studio returns; its result is stored; the task sleeps.
QueryReturn(t, outcome) ==
    /\ t \in DOMAIN comparisons
    /\ comparisons[t].pc = "query"
    /\ comparisons' =
           [comparisons EXCEPT
               ![t].pc = "sleep",
               ![t].translations = Append(@, query_lm_studio(comparisons[t].i, outcome))]
    /\ UNCHANGED <<RelayVars, lm_lock, lm_trace, panels, votes, vote_log>>

\* Lines 260-281: the sleep ends; the next model is asked, or the block is
\* left, the models are shuffled and the panel is sent.
SleepReturn(t) ==
    /\ t \in DOMAIN comparisons
    /\ comparisons[t].pc = "sleep"
    /\ LET c == comparisons[t]
       IN  IF c.i < Len(LM_MODELS)
           THEN /\ comparisons' = [comparisons EXCEPT ![t].pc = "query", ![t].i = c.i + 1]
                /\ lm_trace' = Append(lm_trace, Query(t, c.i + 1))
                /\ UNCHANGED <<lm_lock, panels>>
           ELSE /\ lm_lock' = release(lm_lock)
                /\ lm_trace' = lm_trace
                /\ IF Len(c.translations) < 2
                   THEN /\ comparisons' = [comparisons EXCEPT ![t].pc = "done"]
                        /\ panels' = panels
                   ELSE \E a \in 1..2, ok \in BOOLEAN :
                            /\ comparisons' = [comparisons EXCEPT ![t].pc = "panel_wait"]
                            /\ panels' =
                                   IF ok
                                   THEN Append(panels,
                                               [message_id |-> t,
                                                model_a_name |-> LM_MODELS[a],
                                                model_b_name |-> LM_MODELS[3 - a],
                                                model_a_text |-> c.translations[a],
                                                model_b_text |-> c.translations[3 - a],
                                                deleted |-> FALSE])
                                   ELSE panels
    /\ UNCHANGED <<RelayVars, votes, vote_log>>

\* Line 281: send returns or raises; the task ends.
PanelReturn(t) ==
    /\ t \in DOMAIN comparisons
    /\ comparisons[t].pc = "panel_wait"
    /\ comparisons' = [comparisons EXCEPT ![t].pc = "done"]
    /\ UNCHANGED <<RelayVars, lm_lock, lm_trace, panels, votes, vote_log>>

\* Lines 192-202 and 208-222: a button of panel p is pressed; log_result
\* writes the row (or fails to, and prints) and answers the interaction.
Click(p, button) ==
    /\ p \in 1..Len(panels)
    /\ ~panels[p].deleted
    /\ Len(votes) < MaxClicks
    /\ \E wrote \in BOOLEAN :
           /\ vote_log' =
                  IF wrote
                  THEN Append(vote_log,
                              [message_id |-> panels[p].message_id,
                               model_a_name |-> panels[p].model_a_name,
                               model_b_name |-> panels[p].model_b_name,
                               selection |-> Selection(button, panels[p]).selection,
                               winner_model |-> Selection(button, panels[p]).winner_model])
                  ELSE vote_log
           /\ votes' = Append(votes, [panel |-> p, pc |-> "respond_wait", wrote |-> wrote])
    /\ UNCHANGED <<RelayVars, comparisons, lm_lock, lm_trace, panels>>

\* Lines 202-204: send_message returns and the panel is deleted, or it
\* raises and the handler ends there.
ResumeRespond(v) ==
    /\ v \in 1..Len(votes)
    /\ votes[v].pc = "respond_wait"
    /\ \E ok \in BOOLEAN :
           IF ok
           THEN /\ votes' = [votes EXCEPT ![v].pc = "delete_wait"]
                /\ panels' = [panels EXCEPT ![votes[v].panel].deleted = TRUE]
           ELSE /\ votes' = [votes EXCEPT ![v].pc = "done"]
                /\ panels' = panels
    /\ UNCHANGED <<RelayVars, comparisons, lm_lock, lm_trace, vote_log>>

\* Lines 203-206: delete returns or raises; the handler ends.
ResumeVoteDelete(v) ==
    /\ v \in 1..Len(votes)
    /\ votes[v].pc = "delete_wait"
    /\ votes' = [votes EXCEPT ![v].pc = "done"]
    /\ UNCHANGED <<RelayVars, comparisons, lm_lock, lm_trace, panels, vote_log>>

\* Any number of comparisons running side by side.
NextComparison ==
    \/ \E t \in 1..MaxComparisons : \E text \in ComparisonTexts(t) : StartComparison(t, text)
    \/ \E t \in DOMAIN comparisons : RunComparison(t)
    \/ \E t \in DOMAIN comparisons : LockGranted(t)
    \/ \E t \in DOMAIN comparisons, outcome \in QueryOutcomes : QueryReturn(t, outcome)
    \/ \E t \in DOMAIN comparisons : SleepReturn(t)
    \/ \E t \in DOMAIN comparisons : PanelReturn(t)

SpecComparison == Init /\ [][NextComparison]_vars

\* One comparison, and the presses of the buttons of its panel.
NextVote ==
    \/ \E text \in EditTexts : StartComparison(1, text)
    \/ RunComparison(1)
    \/ \E outcome \in QueryOutcomes : QueryReturn(1, outcome)
    \/ SleepReturn(1)
    \/ PanelReturn(1)
    \/ \E p \in 1..Len(panels), button \in Buttons : Click(p, button)
    \/ \E v \in 1..Len(votes) : ResumeRespond(v)
    \/ \E v \in 1..Len(votes) : ResumeVoteDelete(v)

SpecVote == Init /\ [][NextVote]_vars

(***************************************************************************)
(* Properties.                                                             *)
(***************************************************************************)
Ids == 1..Len(msgs)

Keys == DOMAIN forward_map

\* The copies the bot has sent of source message m (at most one).
Mirrors(m) == {f \in Ids : msgs[f].kind = "fwd" /\ msgs[f].src = m}

KeyOf(id) == <<msgs[id].ch, id>>

\* Every handler has finished and no event waits.
Quiescent == gateway = << >> /\ DOMAIN tasks = {} /\ ready.pc = "done"

\* C1: when a relay completes (lines 434-435 have run for source message m
\* and its copy f), the identity map holds both key (s, m) and key (t, f);
\* when the delete event of a relayed message m is handled, both keys are
\* gone from the map as the handler leaves it.
C1_PairedStep ==
    /\ \A m \in recorded' \ recorded :
           /\ KeyOf(m) \in DOMAIN forward_map'
           /\ \A f \in Mirrors(m) : KeyOf(f) \in DOMAIN forward_map'
    /\ \A m \in (del_handled' \ del_handled) \cap recorded :
           /\ KeyOf(m) \notin DOMAIN forward_map'
           /\ \A f \in Mirrors(m) : KeyOf(f) \notin DOMAIN forward_map'

C1_Paired == [][C1_PairedStep]_vars

\* A relayed message has been deleted and both keys are gone.
C1_Witness ==
    \E m \in recorded \cap del_handled :
        /\ Mirrors(m) # {}
        /\ KeyOf(m) \notin Keys
        /\ \A f \in Mirrors(m) : KeyOf(f) \notin Keys

\* C2: once the relay of m to f has completed, and while neither message is
\* deleted, the map sends (t, f) to m and (s, m) to f, whenever the
\* message-created event of f is handled.
C2_MapsBack ==
    \A m \in recorded : \A f \in Mirrors(m) :
        (~msgs[m].deleted /\ ~msgs[f].deleted)
            => /\ KeyOf(f) \in Keys /\ forward_map[KeyOf(f)] = m
               /\ KeyOf(m) \in Keys /\ forward_map[KeyOf(m)] = f

\* C3: a human message in a routed channel whose delete event has been
\* handled leaves, once every handler has finished, no entry for itself or
\* its copy in the map and no undeleted copy on the platform.
C3_DeleteWins ==
    Quiescent =>
        \A m \in del_handled :
            (msgs[m].kind = "human" /\ Routed(msgs[m].ch))
                => /\ KeyOf(m) \notin Keys
                   /\ \A f \in Mirrors(m) : KeyOf(f) \notin Keys /\ msgs[f].deleted

\* C4: the handler of the delete event of a copy f of a relayed message m
\* removes both (t, f) and (s, m) from the map.
C4_CopyDeleteStep ==
    \A f \in del_handled' \ del_handled :
        (msgs[f].kind = "fwd" /\ msgs[f].src \in recorded)
            => /\ KeyOf(f) \notin DOMAIN forward_map'
               /\ KeyOf(msgs[f].src) \notin DOMAIN forward_map'

C4_CopyDelete == [][C4_CopyDeleteStep]_vars

\* C5: no channel's memory ever holds more than 10 lines, and a step that
\* appends n lines to a memory drops its oldest lines, as many as exceed 10,
\* and keeps the others in their order.
Min(a, b) == IF a < b THEN a ELSE b

IsAppend(old, new, n) ==
    /\ Len(new) = Min(Len(old) + n, MEMORY_LIMIT)
    /\ Len(new) >= n
    /\ SubSeq(new, 1, Len(new) - n)
           = SubSeq(old, Len(old) + n - Len(new) + 1, Len(old))

\* The step in which on_message_edit handles an edit of a human's message in a
\* routed channel appends exactly the line of the edit.
C5_EditAppends ==
    \A key \in (DOMAIN edit_calls') \ (DOMAIN edit_calls) :
        LET c == msgs[key[2]].ch
            new == conversation_memory'[c]
        IN  /\ IsAppend(conversation_memory[c], new, 1)
            /\ new[Len(new)] = Line(HUMAN_NAME, edit_calls'[key].content)

\* The step in which on_message handles a message of a routed channel with no
\* suggestion to retract appends the line of the message: once for the bot's
\* own message, twice for a human's.
C5_CreateAppends ==
    \A id \in (DOMAIN cache') \ (DOMAIN cache) :
        LET c == msgs[id].ch
            new == conversation_memory'[c]
            bot == msgs[id].kind # "human"
        IN  (Routed(c) /\ suggestion_messages[c] \in {0, id}) =>
                /\ IsAppend(conversation_memory[c], new, IF bot THEN 1 ELSE 2)
                /\ new[Len(new)] = Line(IF bot THEN BOT_NAME ELSE HUMAN_NAME, cache'[id])

C5_FifoStep ==
    /\ C5_EditAppends
    /\ C5_CreateAppends
    /\ \A c \in Channels :
           \/ conversation_memory'[c] = conversation_memory[c]
           \/ ready' # ready
           \/ \E n \in 1..2 : IsAppend(conversation_memory[c], conversation_memory'[c], n)

C5_Bounded ==
    /\ [](\A c \in Channels : Len(conversation_memory[c]) <= MEMORY_LIMIT)
    /\ [][C5_FifoStep]_vars

\* The memory of "ja" is full and the oldest seeded line has been dropped.
C5_Witness ==
    /\ ready.pc = "done"
    /\ Len(conversation_memory["ja"]) = MEMORY_LIMIT
    /\ conversation_memory["ja"][1] # Line(HUMAN_NAME, OldHistory("ja")[HISTORY_LIMIT].content)

(***************************************************************************)
(* Properties of safe_translate (SpecTranslate).                           *)
(***************************************************************************)
Attempts == 1..(max_retries + 1)

\* What one attempt yields: the stripped answer, or nothing when the call raised.
Result(outcome) == IF outcome.exc THEN EMPTY ELSE Strip(outcome.text)

\* The language validation of a direction.
Valid(dir, text) ==
    /\ text # EMPTY
    /\ IF dir = "en" THEN ~is_japanese(text) ELSE is_japanese(text)

Placeholder(dir) == IF dir = "en" THEN ERR_EN ELSE ERR_JA

NoneValid == \A i \in Attempts : ~Valid(st.dir, Result(st.outs[i]))

\* C6: safe_translate never returns the empty string.
C6_NeverEmpty == st.pc = "done" => st.res.ret # EMPTY

\* Every attempt raised and a placeholder came back.
C6_Witness ==
    /\ st.pc = "done"
    /\ \A i \in Attempts : st.outs[i].exc
    /\ st.res.ret = Placeholder(st.dir)

\* C7, as claimed: the value returned passed the validation of the
\* direction or is one of the two placeholders.
C7_ValidatedOrPlaceholder ==
    st.pc = "done" => (Valid(st.dir, st.res.ret) \/ st.res.ret \in {ERR_EN, ERR_JA})

\* C7, amended: the value returned is an answer that passed the validation;
\* or, no attempt having passed it, the text of the final attempt when that
\* attempt gave text; or else the placeholder of the direction.
C7_Amended ==
    st.pc = "done" =>
        \/ \E i \in Attempts :
               st.res.ret = Result(st.outs[i]) /\ Valid(st.dir, st.res.ret)
        \/ /\ NoneValid
           /\ Result(st.outs[max_retries + 1]) # EMPTY
           /\ st.res.ret = Result(st.outs[max_retries + 1])
        \/ /\ NoneValid
           /\ Result(st.outs[max_retries + 1]) = EMPTY
           /\ st.res.ret = Placeholder(st.dir)

\* No attempt passed and the text of the final attempt, in the wrong
\* language, came back.
C7_Witness ==
    /\ st.pc = "done"
    /\ NoneValid
    /\ st.res.ret = Result(st.outs[max_retries + 1])
    /\ ~Valid(st.dir, st.res.ret)

\* C8: when every attempt fails validation, the value returned is the last
\* result over all attempts that held text, and the placeholder only when
\* no attempt gave text.
C8_LastNonEmpty ==
    (st.pc = "done" /\ NoneValid) =>
        LET withText == {i \in Attempts : Result(st.outs[i]) # EMPTY}
        IN  IF withText = {}
            THEN st.res.ret = Placeholder(st.dir)
            ELSE st.res.ret =
                     Result(st.outs[CHOOSE i \in withText : \A j \in withText : j <= i])

(***************************************************************************)
(* Properties of the relay, continued.                                     *)
(***************************************************************************)
\* C9: a relay send carries a reply reference only if the inbound message
\* replies to a parent that has an entry under the source channel and the
\* message of that entry is in the target channel; the reference is then
\* that message, and the copy the platform creates carries it.
C9_ReplyStep ==
    /\ \A key \in DOMAIN tasks' :
           (tasks'[key].pc = "send_wait"
                /\ (key \notin DOMAIN tasks \/ tasks[key].pc # "send_wait"))
               => LET m == key[2]
                      pkey == <<msgs[m].ch, msgs[m].ref>>
                      ref == tasks'[key].ref
                  IN  ref # 0 =>
                          /\ msgs[m].ref # 0
                          /\ pkey \in DOMAIN forward_map'
                          /\ forward_map'[pkey] = ref
                          /\ msgs[ref].ch = tasks'[key].tch
    /\ \A f \in (1..Len(msgs')) \ Ids :
           msgs'[f].kind = "fwd"
               => /\ msgs'[f].ref = tasks'[<<"msg", msgs'[f].src, 0>>].ref
                  /\ msgs'[f].ch = tasks'[<<"msg", msgs'[f].src, 0>>].tch

C9_ReplyOnlyInTarget == [][C9_ReplyStep]_vars

\* A copy was sent as a reply.
C9_Witness == \E f \in Ids : msgs[f].kind = "fwd" /\ msgs[f].ref # 0

\* C10: the handler of an edit event of a human message whose relay had
\* completed calls edit at most once, and exactly once by the time it has
\* finished; the call is on the copy of that message; the content is what
\* the routing of the first send makes of the new text; and the context
\* given to the translation ends with the line of the edit itself.
EndsWith(t, suffix) ==
    Len(t) >= Len(suffix) /\ SubSeq(t, Len(t) - Len(suffix) + 1, Len(t)) = suffix

C10_EditsTheCopy ==
    \A key \in DOMAIN edit_calls :
        LET e == edit_calls[key]
            m == key[2]
            c == msgs[m].ch
            expected ==
                {build_forward_content(HUMAN_MENTION, msgs[m].att, t) :
                    t \in Translations(forward_plan(c, e.content).mode, e.content)}
        IN  e.relayed =>
                /\ Len(e.edits) <= 1
                /\ key \notin DOMAIN tasks => Len(e.edits) = 1
                /\ \A i \in 1..Len(e.edits) :
                       /\ e.edits[i].target \in Mirrors(m)
                       /\ e.edits[i].content \in expected
                /\ e.mode \in {"en", "ja"}
                       => EndsWith(e.context, Line(HUMAN_NAME, e.content))

\* The edit of a relayed message went through translation and is finished.
C10_Witness ==
    \E key \in DOMAIN edit_calls :
        /\ edit_calls[key].relayed
        /\ edit_calls[key].mode \in {"en", "ja"}
        /\ key \notin DOMAIN tasks
        /\ Len(edit_calls[key].edits) = 1

(***************************************************************************)
(* Edits and deletes of messages, continued.                               *)
(***************************************************************************)
\* C11: the handler of an edit event of a human message whose relay has not
\* completed when the event is handled (the send failed, or has not been
\* reached yet) calls edit on no message, and the step that handles the
\* event leaves the identity map as it was.
C11_EditStep ==
    \A key \in DOMAIN edit_calls' :
        ~edit_calls'[key].relayed =>
            /\ edit_calls'[key].edits = << >>
            /\ key \notin DOMAIN edit_calls => forward_map' = forward_map

C11_EditNoOp == [][C11_EditStep]_vars

\* C12: the first handling of the delete event of a human message whose
\* relay had completed removes both of its keys from the identity map and
\* calls delete once, on the copy; every later handling of a delete event of
\* that message calls nothing, raises nothing and changes no state of the
\* bot or the platform.
DeleteLog(log, id) == IF id \in DOMAIN log THEN log[id] ELSE << >>

C12_DeleteStep ==
    \A id \in DOMAIN del_log' :
        LET old == DeleteLog(del_log, id)
            new == del_log'[id]
        IN  Len(new) > Len(old) =>
                /\ (old = << >> /\ id \in recorded /\ msgs[id].kind = "human") =>
                       /\ KeyOf(id) \notin DOMAIN forward_map'
                       /\ \A f \in Mirrors(id) : KeyOf(f) \notin DOMAIN forward_map'
                       /\ new[1].target \in Mirrors(id)
                       /\ (DOMAIN tasks') \ (DOMAIN tasks) = {<<"delete", id, 0>>}
                /\ (old # << >> /\ old[1].relayed /\ msgs[id].kind = "human") =>
                       /\ new[Len(new)].target = 0
                       /\ msgs' = msgs
                       /\ tasks' = tasks
                       /\ escaped' = escaped
                       /\ <<cache', forward_map', conversation_memory', suggestion_messages'>>
                              = <<cache, forward_map, conversation_memory, suggestion_messages>>

C12_DeleteIdempotent == [][C12_DeleteStep]_vars

\* The delete event of a relayed message has been handled twice.
C12_Witness ==
    \E id \in DOMAIN del_log :
        /\ Len(del_log[id]) = 2
        /\ del_log[id][1].relayed
        /\ del_log[id][1].target \in Mirrors(id)
        /\ del_log[id][2].target = 0

\* C13: the step that handles the message-created event of a message sent by
\* a bot in a routed channel leaves that channel's memory and the identity
\* map as they were, and starts no translation and no send.
C13_BotStep ==
    \A id \in (DOMAIN cache') \ (DOMAIN cache) :
        (msgs[id].kind # "human" /\ Routed(msgs[id].ch)) =>
            /\ conversation_memory'[msgs[id].ch] = conversation_memory[msgs[id].ch]
            /\ forward_map' = forward_map
            /\ \A key \in DOMAIN tasks' :
                   key[2] = id => tasks'[key].pc \notin {"translate_wait", "send_wait"}

C13_BotIgnored == [][C13_BotStep]_vars

\* C14: when the send of the copy fails, no exception leaves on_message: the
\* handler that resumes from a failed send is not one an exception escapes
\* from.
C14_SendStep ==
    \A key \in escaped' \ escaped :
        ~(key \in DOMAIN tasks /\ tasks[key].pc = "send_wait" /\ tasks[key].res = 0)

C14_SendFailureCaught == [][C14_SendStep]_vars

\* C15: when the edit or the delete of the copy fails, the handler ends at
\* the step that receives the failure: no exception leaves it, it calls the
\* platform no more, and the identity map is what a successful call would
\* have left (both keys removed when the failed delete was issued, nothing
\* changed by the edit).
Propagating == {"edit_wait", "delete_wait"}

C15_FailureStep ==
    /\ \A key \in DOMAIN tasks :
           (tasks[key].pc \in Propagating /\ tasks[key].res = 0
                /\ (key \notin DOMAIN tasks' \/ tasks'[key] # tasks[key]))
               => /\ key \notin DOMAIN tasks'
                  /\ key \notin escaped'
                  /\ msgs' = msgs
                  /\ forward_map' = forward_map
    /\ \A key \in DOMAIN tasks' :
           (tasks'[key].pc \in Propagating /\ tasks'[key].res = 0
                /\ (key \notin DOMAIN tasks \/ tasks[key].pc \notin Propagating))
               => IF tasks'[key].pc = "delete_wait"
                  THEN /\ KeyOf(key[2]) \notin DOMAIN forward_map'
                       /\ KeyOf(tasks'[key].target) \notin DOMAIN forward_map'
                       /\ msgs' = msgs
                  ELSE forward_map' = forward_map /\ msgs' = msgs

C15_FailureCaught == [][C15_FailureStep]_vars

\* The delete of the copy of a relayed message failed, the handler has
\* ended, and the copy is still there with both keys gone.
C15_Witness ==
    \E id \in DOMAIN del_log :
        LET f == del_log[id][1].target
        IN  /\ del_log[id][1].relayed
            /\ f \in Mirrors(id)
            /\ ~msgs[f].deleted
            /\ <<"delete", id, 0>> \notin DOMAIN tasks
            /\ <<"delete", id, 0>> \notin escaped
            /\ KeyOf(id) \notin Keys /\ KeyOf(f) \notin Keys

(***************************************************************************)
(* Properties of the comparison (SpecComparison) and of the vote           *)
(* (SpecVote).                                                             *)
(***************************************************************************)
\* C16: at most one local-model query is in flight at any time, at most one
\* task is between its first query and the end of its last sleep, and the
\* queries of one task are never separated by a query of another task.
Querying == {t \in DOMAIN comparisons : comparisons[t].pc = "query"}

InBlock == {t \in DOMAIN comparisons : comparisons[t].pc \in {"query", "sleep"}}

C16_OneQueryInFlight ==
    /\ Cardinality(Querying) <= 1
    /\ Cardinality(InBlock) <= 1
    /\ \A i, j, k \in 1..Len(lm_trace) :
           (i < j /\ j < k /\ lm_trace[i].task = lm_trace[k].task)
               => lm_trace[j].task = lm_trace[i].task

\* One task is at its second query while another waits for the lock.
C16_Witness ==
    \E t, u \in DOMAIN comparisons :
        /\ comparisons[t].pc = "query" /\ comparisons[t].i = 2
        /\ comparisons[u].pc = "lock_wait"

\* C17: under any order of the button presses on one panel, exactly one row
\* is written to the vote log for that panel (the writes themselves having
\* gone through).
RowsOf(p) == {r \in 1..Len(vote_log) : vote_log[r].message_id = panels[p].message_id}

PressesOf(p) == {v \in 1..Len(votes) : votes[v].panel = p}

C17_OneVote ==
    \A p \in 1..Len(panels) :
        (PressesOf(p) # {} /\ \A v \in PressesOf(p) : votes[v].wrote)
            => Cardinality(RowsOf(p)) = 1

\* C18: a panel is sent only for a comparison both of whose queries
\* succeeded.
IsError(text) == StartsWith(text, ERROR_PREFIX)

C18_FailedDropped ==
    \A p \in 1..Len(panels) :
        ~IsError(panels[p].model_a_text) /\ ~IsError(panels[p].model_b_text)

(***************************************************************************)
(* Properties of the interleaving of handlers (Spec).                      *)
(***************************************************************************)
\* C19: handlers of one channel are not serialized.  A handler that comes
\* back from a translation sends, or writes into the copy, the translation
\* of the text it read before it was suspended, whatever the message says by
\* then; so there is an execution (C19_Witness) in which a message is edited
\* while its relay is suspended in translation and, all handlers finished,
\* the copy shows the translation of the older text.
Resumed(key) ==
    /\ key \in DOMAIN tasks
    /\ tasks[key].pc = "translate_wait"
    /\ key \notin DOMAIN tasks' \/ tasks'[key].pc # "translate_wait"

C19_ResumeStep ==
    \A key \in DOMAIN tasks :
        Resumed(key) =>
            IF key[1] = "msg"
            THEN \A f \in (1..Len(msgs')) \ Ids :
                     msgs'[f].kind = "fwd" => msgs'[f].of = tasks[key].content
            ELSE msgs'[tasks[key].target] # msgs[tasks[key].target]
                     => msgs'[tasks[key].target].of = tasks[key].content

C19_NotSerialized == [][C19_ResumeStep]_vars

C19_Witness ==
    /\ Quiescent
    /\ \E key \in DOMAIN edit_calls :
           LET m == key[2]
           IN  /\ "translate_wait" \in edit_calls[key].racing
               /\ ~msgs[m].deleted
               /\ msgs[m].content = edit_calls[key].content
               /\ \E f \in Mirrors(m) :
                      /\ ~msgs[f].deleted
                      /\ msgs[f].of # msgs[m].content
                      /\ forward_plan(msgs[m].ch, msgs[f].of).mode \in {"en", "ja"}

\* C20: no handler removes the pending-suggestion entry of a channel after
\* another handler has removed it: the del of line 444 or 469 never raises,
\* so no on_message handler is left by an exception at that point.
C20_DelStep ==
    \A key \in escaped' \ escaped :
        ~(key \in DOMAIN tasks /\ tasks[key].pc \in {"om_delete_wait", "fm_delete_wait"})

C20_NoMissingKey == [][C20_DelStep]_vars

(***************************************************************************)
(* Properties of safe_translate, continued (SpecTranslate).                *)
(***************************************************************************)
\* C21: a call of safe_translate ends after at most max_retries + 1 = 3
\* calls of the translator; an attempt that raises counts as an empty
\* result and the next attempt is made; and the first attempt whose result
\* is non-empty and passes the validation is returned at once, with no call
\* and no one-second wait after it.
ValidAttempts == {i \in Attempts : Valid(st.dir, Result(st.outs[i]))}

C21_BoundedRetries ==
    st.pc = "done" =>
        /\ st.res.calls <= max_retries + 1
        /\ IF ValidAttempts = {}
           THEN st.res.calls = max_retries + 1
           ELSE LET first == CHOOSE i \in ValidAttempts : \A j \in ValidAttempts : i <= j
                IN  /\ st.res.ret = Result(st.outs[first])
                    /\ st.res.calls = first
                    /\ st.res.sleeps = first - 1

\* The first attempt raised, the second passed and was returned after two
\* calls and one wait.
C21_Witness ==
    /\ st.pc = "done"
    /\ st.outs[1].exc
    /\ Valid(st.dir, Result(st.outs[2]))
    /\ st.res.ret = Result(st.outs[2])
    /\ st.res.calls = 2
    /\ st.res.sleeps = 1

(***************************************************************************)
(* Properties of the relay, continued (Spec).                              *)
(***************************************************************************)
\* C22: the step in which on_message handles the message-created event of a
\* human's message in a routed channel appends exactly one line
\* "{display_name}: {content}" to the memory of that channel, and leaves
\* the memory of every other channel as it was.
C22_CreateStep ==
    \A id \in (DOMAIN cache') \ (DOMAIN cache) :
        LET c == msgs[id].ch
            new == conversation_memory'[c]
        IN  (msgs[id].kind = "human" /\ Routed(c) /\ suggestion_messages[c] \in {0, id}) =>
                /\ IsAppend(conversation_memory[c], new, 1)
                /\ new[Len(new)] = Line(HUMAN_NAME, cache'[id])
                /\ \A d \in Channels \ {c} :
                       conversation_memory'[d] = conversation_memory[d]

C22_OneLine == [][C22_CreateStep]_vars

\* C23: for a human's message with text, by the priority of the routing:
\* (1) in the self-paired channel the text is translated into the other
\* language than the one detected and the copy goes to that same channel;
\* (2) in the Japanese channel of a pair, Japanese text is translated into
\* English and any other text goes unchanged, with no call of the
\* translation, to the English channel; (3) in the English channel of a
\* pair, the same with the languages exchanged; (4) in a channel of neither
\* table nothing is sent and neither the memory nor the identity map
\* changes.
Wrapped(m, texts) == {build_forward_content(HUMAN_MENTION, msgs[m].att, t) : t \in texts}

\* The handler of message id, as the step that handles its event leaves it.
C23_Routed(id, text, pc, tch, mode) ==
    LET key == <<"msg", id, 0>>
    IN  /\ key \in DOMAIN tasks'
        /\ tasks'[key].pc = pc
        /\ tasks'[key].tch = tch
        /\ pc = "translate_wait" => tasks'[key].mode = mode /\ tasks'[key].content = text

C23_DispatchStep ==
    \A id \in (DOMAIN cache') \ (DOMAIN cache) :
        LET c == msgs[id].ch
            text == cache'[id]
            ja == is_japanese(text)
        IN  (msgs[id].kind = "human" /\ text # EMPTY /\ suggestion_messages[c] \in {0, id}) =>
                CASE c = "self" ->
                         C23_Routed(id, text, "translate_wait", "self", IF ja THEN "en" ELSE "ja")
                  [] c = "ja" ->
                         IF ja
                         THEN C23_Routed(id, text, "translate_wait", "en", "en")
                         ELSE C23_Routed(id, text, "send_wait", "en", "")
                  [] c = "en" ->
                         IF ~ja
                         THEN C23_Routed(id, text, "translate_wait", "ja", "ja")
                         ELSE C23_Routed(id, text, "send_wait", "ja", "")
                  [] OTHER ->
                         /\ tasks' = tasks
                         /\ msgs' = msgs
                         /\ conversation_memory' = conversation_memory
                         /\ forward_map' = forward_map

\* The copy, at the step that sends it.
C23_SendStep ==
    \A f \in (1..Len(msgs')) \ Ids :
        msgs'[f].kind = "fwd" =>
            LET m == msgs'[f].src
                c == msgs[m].ch
                text == msgs'[f].of
                ja == is_japanese(text)
            IN  text # EMPTY =>
                    CASE c = "self" ->
                             /\ msgs'[f].ch = "self"
                             /\ msgs'[f].content \in
                                    Wrapped(m, IF ja THEN EnglishResults ELSE JapaneseResults)
                      [] c = "ja" ->
                             /\ msgs'[f].ch = "en"
                             /\ msgs'[f].content \in
                                    Wrapped(m, IF ja THEN EnglishResults ELSE {text})
                      [] c = "en" ->
                             /\ msgs'[f].ch = "ja"
                             /\ msgs'[f].content \in
                                    Wrapped(m, IF ~ja THEN JapaneseResults ELSE {text})
                      [] OTHER -> FALSE

C23_RoutingPriority == [][C23_DispatchStep /\ C23_SendStep]_vars

\* English text posted in the self-paired channel has been sent back to it
\* in Japanese.
C23_Witness ==
    \E f \in Ids :
        /\ msgs[f].kind = "fwd"
        /\ msgs[f].ch = "self"
        /\ msgs[msgs[f].src].ch = "self"
        /\ msgs[f].of = EN_TEXT
        /\ msgs[f].content = build_forward_content(HUMAN_MENTION, msgs[msgs[f].src].att,
                                                   Strip(JA_OUT))

====
